---- MODULE Spec2Model ----
(***************************************************************************)
(* A model of pypath_common's settings store (src/pypath_common/           *)
(* _settings.py): the path resolver, the layer loader, the directory       *)
(* materializer and the Settings store with its stack of context           *)
(* overrides.                                                              *)
(*                                                                         *)
(* Python values are records of one shape, [k, n, p]:                      *)
(*   None          [k |-> "none", n |-> 0, p |-> <<>>]                     *)
(*   an int i      [k |-> "int",  n |-> i, p |-> <<>>]                     *)
(*   a str / path  [k |-> "str",  n |-> 1 if absolute else 0,              *)
(*                  p |-> its components]   ("" has no components)         *)
(*   a list of str [k |-> "list", n |-> 0, p |-> its items]                *)
(* A dict is a function from its keys to values.  A dict OBJECT owned by   *)
(* the caller is an index into cdict, so that the in-place update of       *)
(* _dict_and_kwargs and the reference kept on the context stack are        *)
(* modelled as Python has them.                                            *)
(***************************************************************************)
EXTENDS Integers, Sequences, FiniteSets, TLC

VARIABLES
    disk,              \* config files on disk: real path -> parsed YAML mapping
    fsdirs,            \* directories that exist on disk
    module,            \* Settings.module ("" stands for None)
    paths_arg,         \* the `paths` argument of Settings.__init__
    init_dict,         \* the _dict / kwargs of Settings.__init__, merged
    phase,             \* "new" | "ready" | "failed" (the constructor raised)
    s_paths,           \* Settings._paths after _custom_paths
    other_modules,     \* Settings._other_modules
    parsed,            \* Settings._parsed
    settings,          \* Settings._settings (base_map)
    context_settings,  \* Settings._context_settings (the context stack)
    defaults,          \* Settings._defaults (the defaults snapshot)
    module_defaults,   \* Settings._module_defaults
    cdict,             \* dict objects owned by the caller: index -> mapping
    scopes,            \* the caller's active `with context(...)` blocks
    exc,               \* an exception is propagating in the caller
    last,              \* the get() or reset() call just made, if any, and its result
    tpc,               \* per thread: position inside Settings.context
    tslice,            \* per thread: the slice computed by the finally clause
    tmap,              \* per thread: the map its scope pushed
    SESSIONS,          \* _session.SESSIONS: registry key -> Session object
    built,             \* how many Session objects were constructed so far
    returned,          \* module identity -> the Session session() last returned
    slast,             \* the session() / new_session() call just made
    scall,             \* per thread: its call of session() in progress
    logenv,            \* os.environ['PYPATH_LOG'] and builtins.PYPATH_LOG
    logger,            \* a Session's logfile and its _logger.Logger object
    llast              \* the Logger or Session call just made and what it did

vars == <<disk, fsdirs, module, paths_arg, init_dict, phase, s_paths,
          other_modules, parsed, settings, context_settings, defaults,
          module_defaults, cdict, scopes, exc, last, tpc, tslice, tmap,
          SESSIONS, built, returned, slast, scall, logenv, logger, llast>>

envVars == <<disk, module, paths_arg, init_dict>>
storeVars == <<s_paths, other_modules, parsed, settings, context_settings,
               defaults, module_defaults>>
threadVars == <<tpc, tslice, tmap>>
sessVars == <<SESSIONS, built, returned, slast, scall>>
logVars == <<logenv, logger, llast>>

-----------------------------------------------------------------------------
(* Python values                                                           *)

VNone == [k |-> "none", n |-> 0, p |-> <<>>]
VInt(i) == [k |-> "int", n |-> i, p |-> <<>>]
VStr(abs, parts) == [k |-> "str", n |-> IF abs THEN 1 ELSE 0, p |-> parts]
VList(items) == [k |-> "list", n |-> 0, p |-> items]
VAbs(parts) == VStr(TRUE, parts)
VRel(parts) == VStr(FALSE, parts)

\* bool(v): None, 0, "" and [] are falsy
Truthy(v) ==
    CASE v.k = "none" -> FALSE
      [] v.k = "int" -> v.n # 0
      [] v.k = "str" -> v.n = 1 \/ v.p # <<>>
      [] OTHER -> v.p # <<>>

IsStr(v) == v.k = "str"

\* os.path.join(a, b) of two str values
PathJoin(a, b) == IF b.n = 1 THEN b ELSE [k |-> "str", n |-> a.n, p |-> a.p \o b.p]

\* os.path.dirname(a)
Front(s) == SubSeq(s, 1, Len(s) - 1)
PathDirname(a) == [k |-> "str", n |-> a.n, p |-> Front(a.p)]

Empty == [x \in {} |-> VNone]

\* dict.update: d with every key of e set to e's value
Update(d, e) ==
    [key \in DOMAIN d \cup DOMAIN e |-> IF key \in DOMAIN e THEN e[key] ELSE d[key]]

One(key, v) == [x \in {key} |-> v]

\* a local name for a value: F applied to v
Bind(v, F(_)) == F(v)

-----------------------------------------------------------------------------
(* Locations                                                               *)

NoDir == <<>>
Cwd == <<"cwd">>

\* importlib.util.find_spec: the importable modules and where they live
ModulePath(m) ==
    CASE m = "mod" -> <<"site", "mod">>
      [] m = "omod" -> <<"site", "omod">>
      [] OTHER -> NoDir

DotName(m) ==
    CASE m = "mod" -> ".mod"
      [] m = "omod" -> ".omod"
      [] OTHER -> ".None"

ModuleBasedir(m) == IF m # "" THEN ModulePath(m) ELSE NoDir

ModuleDatadir(m) ==
    IF ModuleBasedir(m) # NoDir THEN ModuleBasedir(m) \o <<"data">> ELSE NoDir

UserConfigDir(m) == IF m = "" THEN <<"home", ".config">> ELSE <<"home", ".config", m>>

UserCacheDir(m) == IF m = "" THEN <<"home", ".cache">> ELSE <<"home", ".cache", m>>

UserSecretsDir(m) == UserConfigDir(m) \o <<"secrets">>

OldUserConfigDir(m) == <<"home", DotName(m)>>

\* the directories with the bundled data directory searched first
DirectoriesBundledFirst(m) ==
    <<ModuleDatadir(m), Cwd, UserConfigDir(m), OldUserConfigDir(m)>>

Directories(m) ==
    <<Cwd, UserConfigDir(m), OldUserConfigDir(m), ModuleDatadir(m)>>

-----------------------------------------------------------------------------
(* File names and candidate paths                                          *)

EXTENSIONS == <<"yaml", "yml">>
NAME_STEMS == <<"settings", "config">>
SEPARATORS == <<"-", "_">>

\* the i-th element of
\*   [sep.join(rev((module, stem))) for stem, sep in product(stems, seps)
\*                                  for rev in (identity, reversed)]
WithModname(m, i) ==
    LET stem == NAME_STEMS[((i - 1) \div 4) + 1]
        sep == SEPARATORS[(((i - 1) \div 2) % 2) + 1]
    IN  IF (i - 1) % 2 = 0 THEN <<m, sep, stem>> ELSE <<stem, sep, m>>

FnameStems(m) ==
    [i \in 1..Len(NAME_STEMS) |-> <<NAME_STEMS[i]>>]
        \o (IF m # "" THEN [i \in 1..8 |-> WithModname(m, i)] ELSE <<>>)

Fnames(m) ==
    LET stems == FnameStems(m)
        ne == Len(EXTENSIONS)
    IN  [i \in 1..(Len(stems) * ne) |->
            stems[((i - 1) \div ne) + 1] \o <<".", EXTENSIONS[((i - 1) % ne) + 1]>>]

\* a path of a file: pl.Path(d) / f
MkPath(d, f) == [abs |-> TRUE, dir |-> d, f |-> f]
RelPath(d, f) == [abs |-> FALSE, dir |-> d, f |-> f]

\* the file a path names (relative paths are relative to the working directory)
Real(p) == [dir |-> IF p.abs THEN p.dir ELSE Cwd \o p.dir, f |-> p.f]

Exists(dsk, p) == Real(p) \in DOMAIN dsk

RECURSIVE DirPaths(_, _)
DirPaths(dirs, fnames) ==
    IF dirs = <<>> THEN <<>>
    ELSE (IF Head(dirs) # NoDir
            THEN [i \in 1..Len(fnames) |-> MkPath(Head(dirs), fnames[i])]
            ELSE <<>>)
         \o DirPaths(Tail(dirs), fnames)

PathsIn(m, others) == DirPaths(others \o Directories(m), Fnames(m))

Paths(sp, m, others) == sp \o PathsIn(m, others)

-----------------------------------------------------------------------------
(* Lookup: Settings.contexts, _from_context, _in_context, __getitem__, get *)

\* the mapping a context stack entry refers to: its own dict, or a dict
\* object of the caller's that context() was given and kept by reference
CtxMap(cd, e) == IF e.obj = 0 THEN e.m ELSE cd[e.obj]

InContext(cs, cd, param) ==
    \E i \in 1..Len(cs) : param \in DOMAIN CtxMap(cd, cs[i])

\* for ctx in reversed(_context_settings): if param in ctx: return ctx[param]
RECURSIVE FromContextAt(_, _, _, _)
FromContextAt(cs, cd, param, i) ==
    IF i = 0 THEN VNone
    ELSE IF param \in DOMAIN CtxMap(cd, cs[i]) THEN CtxMap(cd, cs[i])[param]
    ELSE FromContextAt(cs, cd, param, i - 1)

\* the contexts searched from the outermost: iterating _context_settings
\* instead of reversed(_context_settings)
RECURSIVE FromContextUp(_, _, _, _)
FromContextUp(cs, cd, param, i) ==
    IF i > Len(cs) THEN VNone
    ELSE IF param \in DOMAIN CtxMap(cd, cs[i]) THEN CtxMap(cd, cs[i])[param]
    ELSE FromContextUp(cs, cd, param, i + 1)

FromContextOutermost(cs, cd, param) == FromContextUp(cs, cd, param, 1)

FromContext(cs, cd, param) == FromContextAt(cs, cd, param, Len(cs))

\* __getitem__ passing over a context value that is None
GetItemFallThrough(st, cs, cd, key) ==
    IF InContext(cs, cd, key) /\ FromContext(cs, cd, key) # VNone
    THEN FromContext(cs, cd, key)
    ELSE IF key \in DOMAIN st THEN st[key]
    ELSE VNone

GetItem(st, cs, cd, key) ==
    IF InContext(cs, cd, key) THEN FromContext(cs, cd, key)
    ELSE IF key \in DOMAIN st THEN st[key]
    ELSE VNone

\* get() written as `self[param] or default`: every falsy value gives way
GetOrDefault(st, cs, cd, param, override, default) ==
    IF override = VNone
    THEN (IF ~Truthy(GetItem(st, cs, cd, param)) THEN default
          ELSE GetItem(st, cs, cd, param))
    ELSE override

Get(st, cs, cd, param, override, default) ==
    IF override = VNone
    THEN (IF GetItem(st, cs, cd, param) = VNone THEN default
          ELSE GetItem(st, cs, cd, param))
    ELSE override

Contains(st, cs, cd, param) == InContext(cs, cd, param) \/ param \in DOMAIN st

\* the instance attributes object.__dir__(self) lists for a constructed store
\* (the attributes of the class are left out)
ObjectDir ==
    <<"_paths", "module", "author", "_other_modules", "_module_defaults",
      "_settings", "_context_settings", "_parsed", "_defaults">>

\* the names a store can list, in the order sorted() puts them
SortOrder ==
    <<"_context_settings", "_defaults", "_module_defaults", "_other_modules",
      "_parsed", "_paths", "_settings", "author", "basedir", "cachedir",
      "datadir", "module", "pickle_dir", "secrets_dir", "x", "y", "z">>

\* sorted(S) of a set of names
Sorted(S) == SelectSeq(SortOrder, LAMBDA n : n \in S)

\* the keys of a dict as a list (their order is immaterial: the list is only
\* extended and sorted)
KeysOf(d) == Sorted(DOMAIN d)

\* [keys.extend(ctx.keys()) for ctx in self.contexts], from position i down
RECURSIVE ContextKeysFrom(_, _, _)
ContextKeysFrom(cs, cd, i) ==
    IF i = 0 THEN <<>>
    ELSE KeysOf(CtxMap(cd, cs[i])) \o ContextKeysFrom(cs, cd, i - 1)

\* keys after the two extends of __dir__, before set() and sorted()
DirList(st, cs, cd) == ObjectDir \o ContextKeysFrom(cs, cd, Len(cs)) \o KeysOf(st)

\* sorted(keys) of a list of names: every occurrence is kept
RECURSIVE SortedFrom(_, _)
SortedFrom(keys, n) ==
    IF n > Len(SortOrder) THEN <<>>
    ELSE SelectSeq(keys, LAMBDA k : k = SortOrder[n]) \o SortedFrom(keys, n + 1)

\* __dir__ without the set()
DirKeepAll(st, cs, cd) ==
    Bind(DirList(st, cs, cd), LAMBDA keys : SortedFrom(keys, 1))

\* Settings.__dir__: sorted(set(keys))
Dir(st, cs, cd) ==
    Bind(DirList(st, cs, cd), LAMBDA keys :
         Sorted({keys[i] : i \in 1..Len(keys)}))

\* get() while the context stack is empty, as inside _bootstrap
BGet(st, param, default) == Get(st, <<>>, <<>>, param, VNone, default)

\* the value _dict_and_kwargs returns: (_dict or {}) updated with kwargs
DictAndKwargs(d, kwargs) == Update(d, kwargs)

\* Settings.setup on the base map
SetupMap(st, d) == Update(st, d)

-----------------------------------------------------------------------------
(* Settings.read, _custom_paths, _read_defaults                            *)

Read(dsk, path) == IF Exists(dsk, path) THEN dsk[Real(path)] ELSE Empty

InSeq(x, s) == \E i \in 1..Len(s) : s[i] = x

\* One explicit entry is [p |-> the string read as a path, mod |-> the module
\* importlib locates under that name, "" if none].  A string that is not an
\* existing file and starts with a word character or a dot (every relative
\* path does) is looked up as a module.
\* the module's directory, then those of its data and _data that exist
ModuleDirs(fdirs, mod_path) ==
    <<mod_path>>
        \o (IF (mod_path \o <<"data">>) \in fdirs THEN <<mod_path \o <<"data">> >> ELSE <<>>)
        \o (IF (mod_path \o <<"_data">>) \in fdirs THEN <<mod_path \o <<"_data">> >> ELSE <<>>)

RECURSIVE CustomPathsFrom(_, _, _, _)
CustomPathsFrom(dsk, fdirs, entries, acc) ==
    IF entries = <<>> \/ acc.err THEN acc
    ELSE IF ~Exists(dsk, Head(entries).p) /\ ~Head(entries).p.abs
    THEN IF ModulePath(Head(entries).mod) = NoDir
         THEN [acc EXCEPT !.err = TRUE]
         ELSE CustomPathsFrom(dsk, fdirs, Tail(entries),
                  [acc EXCEPT !.modules =
                       @ \o ModuleDirs(fdirs, ModulePath(Head(entries).mod))])
    ELSE CustomPathsFrom(dsk, fdirs, Tail(entries),
             [acc EXCEPT !.paths = Append(@, Head(entries).p)])

CustomPaths(dsk, fdirs, entries) ==
    CustomPathsFrom(dsk, fdirs, entries, [paths |-> <<>>, modules |-> <<>>, err |-> FALSE])

ReadDefaults(dsk, m, others) ==
    LET datadirs == (IF ModuleDatadir(m) # NoDir THEN <<ModuleDatadir(m)>> ELSE <<>>)
                        \o others
    IN  IF datadirs = <<>> THEN Empty
        ELSE Read(dsk, MkPath(datadirs[1], Fnames(m)[1]))

-----------------------------------------------------------------------------
(* The layer loader: the loop of Settings._bootstrap                       *)

RECURSIVE LoadFrom(_, _, _, _)
LoadFrom(dsk, ps, i, acc) ==
    IF i = 0 THEN acc
    ELSE IF Exists(dsk, ps[i]) /\ ~InSeq(ps[i], acc.parsed)
    THEN LoadFrom(dsk, ps, i - 1,
             [settings |-> SetupMap(acc.settings, Read(dsk, ps[i])),
              parsed |-> Append(acc.parsed, ps[i])])
    ELSE LoadFrom(dsk, ps, i - 1, acc)

\* for path in reversed(self.paths): if os.path.exists(path) and ...
\* (the paths that do not exist are passed over before the loop is unrolled)
LoadLayers(dsk, ps) ==
    Bind(SelectSeq(ps, LAMBDA path : Exists(dsk, path)), LAMBDA existing :
         LoadFrom(dsk, existing, Len(existing), [settings |-> Empty, parsed |-> <<>>]))

-----------------------------------------------------------------------------
(* The directory materializer: _setup_datadir, _setup_dir, _setup_cachedir, *)
(* _setup_secretsdir.  A step maps b = [st, dirs, err]: the base map, the   *)
(* directories on disk, and whether an exception was raised.                *)

DirValue(d) == IF d = NoDir THEN VNone ELSE VAbs(d)

\* the directory a str value names, and os.makedirs(path, exist_ok = True)
RealDir(v) == IF v.n = 1 THEN v.p ELSE Cwd \o v.p
MakeDirs(dirs, v) == dirs \cup {SubSeq(RealDir(v), 1, j) : j \in 1..Len(RealDir(v))}

\* what iterating over the value of an in_* setting yields
Iterable(v) == v.k = "list" \/ (v.k = "str" /\ v.p = <<>> /\ v.n = 0)

\* {k: join(datadir, p) for k, p in ((k, get(k)) for k in in_datadir)
\*                      if dirname(p) != datadir}
RECURSIVE InDatadirFrom(_, _, _, _)
InDatadirFrom(st, datadir, keys, acc) ==
    IF keys = <<>> \/ acc.err THEN acc
    ELSE LET p == BGet(st, Head(keys), VNone)
         IN  IF ~IsStr(p) \/ ~IsStr(datadir)
             THEN [acc EXCEPT !.err = TRUE]
             ELSE InDatadirFrom(st, datadir, Tail(keys),
                      IF PathDirname(p) # datadir
                      THEN [acc EXCEPT !.d = Update(@, One(Head(keys), PathJoin(datadir, p)))]
                      ELSE acc)

SetupDatadir(b, m) ==
    IF b.err THEN b
    ELSE Bind(BGet(b.st, "in_datadir", VList(<<>>)), LAMBDA in_datadir :
         Bind(BGet(b.st, "datadir",
                   IF ModuleDatadir(m) # NoDir THEN VAbs(ModuleDatadir(m))
                   ELSE VRel(<<"data">>)), LAMBDA datadir :
         IF ~Iterable(in_datadir) THEN [b EXCEPT !.err = TRUE]
         ELSE Bind(InDatadirFrom(b.st, datadir, in_datadir.p,
                                 [d |-> Empty, err |-> FALSE]), LAMBDA moved :
              IF moved.err THEN [b EXCEPT !.err = TRUE]
              ELSE [b EXCEPT !.st = SetupMap(SetupMap(b.st, moved.d),
                        \* runtime attributes
                        [datadir |-> datadir,
                         module |-> IF m = "" THEN VNone ELSE VRel(<<m>>),
                         basedir |-> DirValue(ModuleBasedir(m))])])))

\* for key in get(f'in_{key}', default = ()):
\*     if not dirname(fname := get(key)): setup({key: join(path, fname)})
RECURSIVE InDirFrom(_, _, _)
InDirFrom(acc, path, keys) ==
    IF keys = <<>> \/ acc.err THEN acc
    ELSE LET fname == BGet(acc.st, Head(keys), VNone)
         IN  IF ~IsStr(fname) THEN [acc EXCEPT !.err = TRUE]
             ELSE InDirFrom(
                      IF ~Truthy(PathDirname(fname))
                      THEN [acc EXCEPT !.st = SetupMap(@, One(Head(keys), PathJoin(path, fname)))]
                      ELSE acc,
                      path, Tail(keys))

UserDefaultDir(m, key) ==
    IF key = "cachedir" THEN VAbs(UserCacheDir(m)) ELSE VAbs(UserSecretsDir(m))

InKey(key) == IF key = "cachedir" THEN "in_cachedir" ELSE "in_secrets_dir"

\* path = self.get(key) or getattr(self, default)
SetupDirPath(st, m, key) ==
    Bind(BGet(st, key, VNone), LAMBDA v : IF Truthy(v) THEN v ELSE UserDefaultDir(m, key))

\* _setup_dir, as [b |-> the state it leaves, path |-> the path it returns]
SetupDir(b, m, key) ==
    IF b.err THEN [b |-> b, path |-> VNone]
    ELSE Bind(SetupDirPath(b.st, m, key), LAMBDA path :
         Bind([b EXCEPT !.st = SetupMap(b.st, One(key, path))], LAMBDA b1 :
         Bind(BGet(b1.st, InKey(key), VList(<<>>)), LAMBDA in_dir :
         IF ~Iterable(in_dir) \/ ~IsStr(path)
         THEN [b |-> [b1 EXCEPT !.err = TRUE], path |-> path]
         ELSE Bind(InDirFrom(b1, path, in_dir.p), LAMBDA b2 :
              [b |-> IF b2.err THEN b2 ELSE [b2 EXCEPT !.dirs = MakeDirs(@, path)],
               path |-> path]))))

SetupCachedir(b, m) ==
    Bind(SetupDir(b, m, "cachedir"), LAMBDA r :
    IF r.b.err \/ Truthy(BGet(r.b.st, "pickle_dir", VNone)) THEN r.b
    ELSE Bind(PathJoin(r.path, VRel(<<"pickles">>)), LAMBDA pickle_dir :
         [r.b EXCEPT !.st = SetupMap(r.b.st, One("pickle_dir", pickle_dir)),
                     !.dirs = MakeDirs(r.b.dirs, pickle_dir)]))

SetupSecretsdir(b, m) == SetupDir(b, m, "secrets_dir").b

\* MappingProxyType(self.as_dict): a read-only view of a copy of the base map
FinishDefaults(st) == st

-----------------------------------------------------------------------------
(* Settings._bootstrap and Settings.__init__ as functions of the files     *)

Materialize(b, m) == SetupSecretsdir(SetupCachedir(SetupDatadir(b, m), m), m)

Bootstrap(dsk, fdirs, m, sp, others) ==
    Bind(LoadLayers(dsk, Paths(sp, m, others)), LAMBDA loaded :
    Bind(Materialize([st |-> loaded.settings, dirs |-> fdirs, err |-> FALSE], m),
         LAMBDA b :
         [settings |-> b.st, parsed |-> loaded.parsed, dirs |-> b.dirs, err |-> b.err,
          defaults |-> FinishDefaults(b.st)]))

\* Settings.__init__: _custom_paths, _read_defaults, reset_all, setup(_dict, **kwargs)
Constructed(dsk, fdirs, m, entries, idict) ==
    Bind(CustomPaths(dsk, fdirs, entries), LAMBDA cp :
    IF cp.err
    THEN [err |-> TRUE, paths |-> <<>>, others |-> <<>>, module_defaults |-> Empty,
          settings |-> Empty, parsed |-> <<>>, defaults |-> Empty, dirs |-> fdirs]
    ELSE Bind(Bootstrap(dsk, fdirs, m, cp.paths, cp.modules), LAMBDA bs :
         [err |-> bs.err, paths |-> cp.paths, others |-> cp.modules,
          module_defaults |-> ReadDefaults(dsk, m, cp.modules),
          settings |-> IF bs.err THEN bs.settings ELSE SetupMap(bs.settings, idict),
          parsed |-> bs.parsed,
          defaults |-> IF bs.err THEN Empty ELSE bs.defaults,
          dirs |-> bs.dirs]))

-----------------------------------------------------------------------------
(* Bounds and the inputs drawn from them                                   *)

MaxDepth == 2        \* nesting depth of the caller's with-blocks
MaxFiles == 3        \* config files on disk at once
MaxStack == 2        \* context stack length at which threads stop entering

Names == {"x", "y"}
\* the values the caller sets: two integers and None
Values == {VInt(1), VInt(2), VNone}

\* keyword arguments of setup() and context(): none, x = any value, or y = 1
KwArgs == {Empty} \cup {One("x", v) : v \in Values} \cup {One("y", VInt(1))}

\* the _dict argument: None, or a dict object of the caller's
DictArgs == {"none", "obj"}

\* the arguments of get(): param, override, default
GetArgs == Names \X {<<VNone, VNone>>, <<VNone, VInt(2)>>, <<VInt(1), VInt(2)>>}

\* the calls of get() the caller makes
GetCalls == {a \in GetArgs : a[1] = "x"} \cup {<<"y", <<VNone, VInt(2)>> >>}

NoLast == [op |-> "none", name |-> "", override |-> VNone, default |-> VNone,
           res |-> VNone]

\* what get(name) returns in the current state, for every name
Snapshot == [name \in Names |->
                Get(settings, context_settings, cdict, name, VNone, VNone)]

-----------------------------------------------------------------------------
(* The store's operations, called by one thread                            *)

\* default() reading the live base map instead of the snapshot
DefaultLive(dflt, param) == IF param \in DOMAIN settings THEN settings[param] ELSE VNone

\* Settings.default: self._defaults.get(param)
Default(dflt, param) == IF param \in DOMAIN dflt THEN dflt[param] ELSE VNone

\* Settings.builtin_default: self._module_defaults.get(param, None)
BuiltinDefault(mdflt, param) == IF param \in DOMAIN mdflt THEN mdflt[param] ELSE VNone

\* self._context_settings[:-1]
AllButLast(cs) == SubSeq(cs, 1, Len(cs) - 1)

\* the base map was modified inside every active with-block: what get()
\* returned before the block is no longer what it is compared with
AllDirty(sc) == [i \in 1..Len(sc) |-> [sc[i] EXCEPT !.dirty = TRUE, !.pre = Empty]]

Callable == phase = "ready" /\ ~exc /\ \A t \in DOMAIN tpc : tpc[t] = "idle"

\* does `_dict or {}` keep the caller's dict object (a non-empty dict is truthy)?
KeepsObject(d, cd) == d = "obj" /\ cd[1] # Empty

\* Settings(paths, module, _dict, **kwargs)
Construct ==
    /\ phase = "new"
    /\ \E c \in {Constructed(disk, fsdirs, module, paths_arg, init_dict)} :
           /\ phase' = IF c.err THEN "failed" ELSE "ready"
           /\ s_paths' = c.paths
           /\ other_modules' = c.others
           /\ module_defaults' = c.module_defaults
           /\ settings' = c.settings
           /\ parsed' = c.parsed
           /\ defaults' = c.defaults
           /\ context_settings' = <<>>
           /\ fsdirs' = c.dirs
    /\ last' = NoLast
    /\ UNCHANGED <<sessVars, logVars, envVars, cdict, scopes, exc, threadVars>>

\* setup() writing to the innermost context map when there is one
SetupInContext(d, kw) ==
    /\ Callable
    /\ cdict' = cdict
    /\ IF context_settings = <<>>
       THEN /\ settings' = SetupMap(settings, DictAndKwargs(Empty, kw))
            /\ context_settings' = context_settings
       ELSE /\ settings' = settings
            /\ context_settings' =
                   [context_settings EXCEPT ![Len(context_settings)] =
                       [obj |-> 0, m |-> Update(CtxMap(cdict, @), kw)]]
    /\ scopes' = AllDirty(scopes)
    /\ last' = NoLast
    /\ UNCHANGED <<sessVars, logVars, envVars, fsdirs, phase, s_paths, other_modules, parsed,
                   defaults, module_defaults, exc, threadVars>>

\* setup(_dict, **kwargs)
SetupOp(d, kw) ==
    /\ Callable
    /\ cdict' = IF KeepsObject(d, cdict)
                THEN [cdict EXCEPT ![1] = DictAndKwargs(@, kw)]
                ELSE cdict
    /\ settings' = SetupMap(settings,
                       IF KeepsObject(d, cdict) THEN cdict'[1]
                       ELSE DictAndKwargs(Empty, kw))
    /\ scopes' = AllDirty(scopes)
    /\ last' = NoLast
    /\ UNCHANGED <<sessVars, logVars, envVars, fsdirs, phase, s_paths, other_modules, parsed,
                   context_settings, defaults, module_defaults, exc, threadVars>>

\* setup(_dict) with a _dict that is true and has no update method (a number,
\* a list of pairs): _dict_and_kwargs raises AttributeError
SetupBad ==
    /\ Callable
    /\ exc' = TRUE
    /\ last' = NoLast
    /\ UNCHANGED <<sessVars, logVars, envVars, fsdirs, phase, storeVars, cdict, scopes, threadVars>>

\* what the base map holds for param, None if it does not hold it
BaseValue(st, param) == IF param \in DOMAIN st THEN st[param] ELSE VNone

\* the record of a call reset(param): res is the value it replaced
ResetRecord(param) ==
    [NoLast EXCEPT !.op = "reset", !.name = param, !.res = BaseValue(settings, param)]

\* reset() taking the value from the module's bundled defaults
ResetToBuiltin(param) ==
    /\ Callable
    /\ settings' = SetupMap(settings,
                       DictAndKwargs(One(param, BuiltinDefault(module_defaults, param)),
                                     Empty))
    /\ scopes' = AllDirty(scopes)
    /\ last' = ResetRecord(param)
    /\ UNCHANGED <<sessVars, logVars, envVars, fsdirs, phase, s_paths, other_modules, parsed,
                   context_settings, defaults, module_defaults, cdict, exc, threadVars>>

\* reset(param)
ResetOp(param) ==
    /\ Callable
    /\ settings' = SetupMap(settings,
                       DictAndKwargs(One(param, Default(defaults, param)), Empty))
    /\ scopes' = AllDirty(scopes)
    /\ last' = ResetRecord(param)
    /\ UNCHANGED <<sessVars, logVars, envVars, fsdirs, phase, s_paths, other_modules, parsed,
                   context_settings, defaults, module_defaults, cdict, exc, threadVars>>

\* reset_all()
ResetAllOp ==
    /\ Callable
    /\ \E bs \in {Bootstrap(disk, fsdirs, module, s_paths, other_modules)} :
           /\ settings' = bs.settings
           /\ parsed' = bs.parsed
           /\ defaults' = IF bs.err THEN defaults ELSE bs.defaults
           /\ fsdirs' = bs.dirs
           /\ exc' = bs.err
    /\ context_settings' = <<>>
    /\ scopes' = AllDirty(scopes)
    /\ last' = NoLast
    /\ UNCHANGED <<sessVars, logVars, envVars, phase, s_paths, other_modules, module_defaults, cdict,
                   threadVars>>

\* get(param, override, default)
GetOp(param, override, default) ==
    /\ Callable
    /\ last' = [NoLast EXCEPT !.op = "get", !.name = param, !.override = override,
                              !.default = default,
                              !.res = Get(settings, context_settings, cdict, param,
                                          override, default)]
    /\ UNCHANGED <<sessVars, logVars, envVars, fsdirs, phase, storeVars, cdict, scopes, exc, threadVars>>

\* Python's True and False
VBool(b) == VInt(IF b THEN 1 ELSE 0)

\* `param in settings`
ContainsOp(param) ==
    /\ Callable
    /\ last' = [NoLast EXCEPT !.op = "contains", !.name = param,
                              !.res = VBool(Contains(settings, context_settings,
                                                     cdict, param))]
    /\ UNCHANGED <<sessVars, logVars, envVars, fsdirs, phase, storeVars, cdict, scopes, exc, threadVars>>

\* dir(settings)
DirOp ==
    /\ Callable
    /\ last' = [NoLast EXCEPT !.op = "dir",
                              !.res = VList(Dir(settings, context_settings, cdict))]
    /\ UNCHANGED <<sessVars, logVars, envVars, fsdirs, phase, storeVars, cdict, scopes, exc, threadVars>>

\* entering `with settings.context(_dict, **kwargs):`
ContextEnter(d, kw) ==
    /\ Callable
    /\ Len(scopes) < MaxDepth
    /\ cdict' = IF KeepsObject(d, cdict)
                THEN [cdict EXCEPT ![1] = DictAndKwargs(@, kw)]
                ELSE cdict
    /\ context_settings' = Append(context_settings,
           IF KeepsObject(d, cdict) THEN [obj |-> 1, m |-> Empty]
           ELSE [obj |-> 0, m |-> DictAndKwargs(Empty, kw)])
    /\ scopes' = Append(scopes, [pre |-> Snapshot, dirty |-> FALSE,
                                 depth |-> Len(context_settings)])
    /\ last' = NoLast
    /\ UNCHANGED <<sessVars, logVars, envVars, fsdirs, phase, s_paths, other_modules, parsed, settings,
                   defaults, module_defaults, exc, threadVars>>

\* `with settings.context(_dict):` with a _dict that is true and has no update
\* method: _dict_and_kwargs raises inside the try, before the append, and the
\* finally clause runs
ContextEnterBad ==
    /\ Callable
    /\ context_settings' = AllButLast(context_settings)
    /\ exc' = TRUE
    /\ last' = NoLast
    /\ UNCHANGED <<sessVars, logVars, envVars, fsdirs, phase, s_paths, other_modules, parsed, settings,
                   defaults, module_defaults, cdict, scopes, threadVars>>

\* the body of the innermost with-block raises
Raise ==
    /\ Callable
    /\ scopes # <<>>
    /\ exc' = TRUE
    /\ last' = NoLast
    /\ UNCHANGED <<sessVars, logVars, envVars, fsdirs, phase, storeVars, cdict, scopes, threadVars>>

\* the caller's try/except catches the propagating exception
Catch ==
    /\ phase = "ready"
    /\ exc
    /\ exc' = FALSE
    /\ last' = NoLast
    /\ UNCHANGED <<sessVars, logVars, envVars, fsdirs, phase, storeVars, cdict, scopes, threadVars>>

\* leaving the innermost with-block, normally or with the exception that is
\* propagating through it: the finally clause of Settings.context
ContextExit ==
    /\ phase = "ready"
    /\ \A t \in DOMAIN tpc : tpc[t] = "idle"
    /\ scopes # <<>>
    /\ context_settings' = AllButLast(context_settings)
    /\ scopes' = AllButLast(scopes)
    /\ last' = NoLast
    /\ UNCHANGED <<sessVars, logVars, envVars, fsdirs, phase, s_paths, other_modules, parsed, settings,
                   defaults, module_defaults, cdict, exc, threadVars>>

-----------------------------------------------------------------------------
(* Two threads using Settings.context on one store.  list.append is one    *)
(* step; the finally clause reads the list and slices it in one step and   *)
(* stores the slice in another.                                            *)

Threads == {1, 2}

ThreadEntry(t, name) == [obj |-> 0, m |-> One(name, VInt(t))]

TEnter(t, name) ==
    /\ phase = "ready"
    /\ tpc[t] = "idle"
    /\ Len(context_settings) < MaxStack
    /\ context_settings' = Append(context_settings, ThreadEntry(t, name))
    /\ tmap' = [tmap EXCEPT ![t] = ThreadEntry(t, name)]
    /\ tpc' = [tpc EXCEPT ![t] = "in"]
    /\ UNCHANGED <<sessVars, logVars, envVars, fsdirs, phase, s_paths, other_modules, parsed, settings,
                   defaults, module_defaults, cdict, scopes, exc, last, tslice>>

TExitSlice(t) ==
    /\ tpc[t] = "in"
    /\ tslice' = [tslice EXCEPT ![t] = AllButLast(context_settings)]
    /\ tpc' = [tpc EXCEPT ![t] = "sliced"]
    /\ UNCHANGED <<sessVars, logVars, envVars, fsdirs, phase, storeVars, cdict, scopes, exc, last, tmap>>

TExitStore(t) ==
    /\ tpc[t] = "sliced"
    /\ context_settings' = tslice[t]
    /\ tslice' = [tslice EXCEPT ![t] = <<>>]
    /\ tpc' = [tpc EXCEPT ![t] = "idle"]
    /\ UNCHANGED <<sessVars, logVars, envVars, fsdirs, phase, s_paths, other_modules, parsed, settings,
                   defaults, module_defaults, cdict, scopes, exc, last, tmap>>

-----------------------------------------------------------------------------
(* The logger of a session: Session.start_logger, finish_logger, __del__   *)
(* and _logger.Logger.  A message is its level.  logger is                 *)
(* [life, logfile, fname, fp, verbosity, console_level]: life is "none"    *)
(* before the session starts its logger, "live" after, "logger_only" once  *)
(* the Session object was destroyed and "gone" once the Logger was; fp is  *)
(* "open" or "closed" ("none": no file was opened yet).                    *)

MaxLevel == 2        \* the levels of messages are 0..MaxLevel

\* os.path.basename, os.path.abspath
PathBasename(a) ==
    [k |-> "str", n |-> 0, p |-> IF a.p = <<>> THEN <<>> ELSE <<a.p[Len(a.p)]>>]
PathAbspath(a) == IF a.n = 1 THEN a ELSE VAbs(Cwd \o a.p)

\* a or b
Or(a, b) == IF Truthy(a) THEN a ELSE b

\* 'pypath-%s.log' % self.label
DefaultLogfile == VRel(<<"pypath-label.log">>)

\* str(os.getenv('PYPATH_LOG') or getattr(builtins, 'PYPATH_LOG', None)
\*     or 'pypath-%s.log' % self.label)
Logfile(env) == Or(env.env, Or(env.builtin, DefaultLogfile))

\* '%s_log' % self.settings.get('module_name'), module_name not being set
DefaultLogdir == VRel(<<"None_log">>)

\* Logger.get_logdir: the directory, created if it does not exist
GetLogdir(dirname) == PathAbspath(Or(dirname, DefaultLogdir))

\* Logger(fname = basename(logfile), logdir = dirname(logfile)).fname
LoggerFname(logfile) ==
    PathJoin(GetLogdir(PathDirname(logfile)), PathBasename(logfile))

\* Logger.msg(level = level): whether fp.write was called, whether it wrote,
\* whether it raised (ValueError: write to closed file), whether the message
\* was echoed to the console
Msg(lg, level) ==
    [attempt |-> level <= lg.verbosity,
     wrote |-> level <= lg.verbosity /\ lg.fp = "open",
     raised |-> level <= lg.verbosity /\ lg.fp # "open",
     echoed |-> ~(level <= lg.verbosity /\ lg.fp # "open")
                   /\ level <= lg.console_level]

\* hasattr(self, 'fp') and not self.fp.closed
IsOpen(lg) == lg.fp = "open"

NoLoggerYet ==
    [life |-> "none", logfile |-> VNone, fname |-> VNone, fp |-> "none",
     verbosity |-> 0, console_level |-> 0]

\* the record of a call: its name, the level of its (first) message, the
\* state of the file handle when it was made, what msg did and whether
\* fp.close() or fp.flush() was called
LogCall(op, level, lg, m, acted) ==
    [op |-> op, level |-> level, fp |-> lg.fp, attempt |-> m.attempt,
     wrote |-> m.wrote, raised |-> m.raised, echoed |-> m.echoed, acted |-> acted]

NoMsg == [attempt |-> FALSE, wrote |-> FALSE, raised |-> FALSE, echoed |-> FALSE]

NoLogCall == LogCall("none", 0, NoLoggerYet, NoMsg, FALSE)

loggerFrame == <<sessVars, envVars, phase, storeVars, cdict, scopes, exc, last,
                 threadVars, logenv>>

Usable == logger.life \in {"live", "logger_only"}

\* Session.start_logger, with the log_verbosity and console_verbosity of the
\* session's settings, and the messages Logger.__init__ sends
StartLogger(verbosity, console_level) ==
    /\ logger.life = "none"
    /\ \E logfile \in {Logfile(logenv)} :
           /\ logger' = [life |-> "live", logfile |-> logfile,
                         fname |-> LoggerFname(logfile), fp |-> "open",
                         verbosity |-> verbosity, console_level |-> console_level]
           /\ fsdirs' = MakeDirs(fsdirs, GetLogdir(PathDirname(logfile)))
    /\ llast' = LogCall("start_logger", 0, logger', Msg(logger', 0), FALSE)
    /\ UNCHANGED loggerFrame

\* Logger.msg(msg, label, level)
MsgOp(level) ==
    /\ Usable
    /\ llast' = LogCall("msg", level, logger, Msg(logger, level), FALSE)
    /\ UNCHANGED <<loggerFrame, fsdirs, logger>>

\* Logger.console(msg, label): self.msg(level = self.console_level)
ConsoleOp ==
    /\ Usable
    /\ llast' = LogCall("console", logger.console_level, logger,
                        Msg(logger, logger.console_level), FALSE)
    /\ UNCHANGED <<loggerFrame, fsdirs, logger>>

\* Logger.open_logfile: close_logfile(), then open(self.fname, 'wb')
OpenLogfileOp ==
    /\ Usable
    /\ logger' = [logger EXCEPT !.fp = "open"]
    /\ llast' = LogCall("open_logfile", 0, logger, NoMsg, IsOpen(logger))
    /\ UNCHANGED <<loggerFrame, fsdirs>>

\* Logger.close_logfile
CloseLogfileOp ==
    /\ Usable
    /\ logger' = [logger EXCEPT !.fp = IF IsOpen(logger) THEN "closed" ELSE @]
    /\ llast' = LogCall("close_logfile", 0, logger, NoMsg, IsOpen(logger))
    /\ UNCHANGED <<loggerFrame, fsdirs>>

\* Logger.flush
FlushOp ==
    /\ Usable
    /\ llast' = LogCall("flush", 0, logger, NoMsg, IsOpen(logger))
    /\ UNCHANGED <<loggerFrame, fsdirs, logger>>

\* Session.finish_logger: msg(...), then close_logfile() unless msg raised
FinishLoggerOp ==
    /\ logger.life = "live"
    /\ \E m \in {Msg(logger, 0)} :
           /\ logger' = [logger EXCEPT !.fp = IF ~m.raised /\ IsOpen(logger)
                                               THEN "closed" ELSE @]
           /\ llast' = LogCall("finish_logger", 0, logger, m,
                               ~m.raised /\ IsOpen(logger))
    /\ UNCHANGED <<loggerFrame, fsdirs>>

\* Session.__del__: if hasattr(self, '_logger'): self._logger.msg(...)
SessionDelOp ==
    /\ logger.life = "live"
    /\ logger' = [logger EXCEPT !.life = "logger_only"]
    /\ llast' = LogCall("Session.__del__", 0, logger, Msg(logger, 0), FALSE)
    /\ UNCHANGED <<loggerFrame, fsdirs>>

\* Logger.__del__: msg(...); msg('Bye.'); close_logfile(); what the first
\* msg raises ends the method
LoggerDelOp ==
    /\ logger.life = "logger_only"
    /\ \E m \in {Msg(logger, 0)} :
           /\ logger' = [logger EXCEPT !.life = "gone",
                                       !.fp = IF ~m.raised /\ IsOpen(logger)
                                              THEN "closed" ELSE @]
           /\ llast' = LogCall("Logger.__del__", 0, logger, m,
                               ~m.raised /\ IsOpen(logger))
    /\ UNCHANGED <<loggerFrame, fsdirs>>

\* no logger was started and no override of the log file is set
NoLogger ==
    /\ logenv = [env |-> VNone, builtin |-> VNone]
    /\ logger = NoLoggerYet
    /\ llast = NoLogCall

-----------------------------------------------------------------------------
(* Files and constructor arguments                                         *)

Fname(stem, ext) == <<stem, ".", ext>>

ExtFile == MkPath(<<"ext">>, Fname("custom", "yaml"))

\* the files that may be on disk, by number
FilePool ==
    <<Real(ExtFile),
      Real(MkPath(Cwd, Fname("settings", "yaml"))),
      Real(MkPath(Cwd, Fname("config", "yaml"))),
      Real(MkPath(UserConfigDir("mod"), Fname("settings", "yaml"))),
      Real(MkPath(OldUserConfigDir("mod"), Fname("settings", "yaml"))),
      Real(MkPath(ModuleDatadir("mod"), Fname("settings", "yaml"))),
      Real(MkPath(ModuleDatadir("omod"), Fname("settings", "yaml"))),
      Real(MkPath(ModuleDatadir("mod"), Fname("config", "yaml")))>>

\* file number i sets x, or module, to i
FileContents(i) == {One("x", VInt(i)), One("module", VInt(i))}

Disks ==
    UNION {[{FilePool[i] : i \in S} -> UNION {FileContents(i) : i \in S}] :
              S \in {T \in SUBSET (1..Len(FilePool)) : Cardinality(T) <= MaxFiles}}

\* every file holds one of its own contents
WellFormedDisk(dsk) ==
    \A i \in 1..Len(FilePool) :
        FilePool[i] \in DOMAIN dsk => dsk[FilePool[i]] \in FileContents(i)

PathEntry(p) == [p |-> p, mod |-> ""]
ModuleEntry(name) == [p |-> RelPath(<<>>, <<name>>), mod |-> name]

PathArgs ==
    {<<>>,
     <<PathEntry(ExtFile)>>,
     <<PathEntry(MkPath(Cwd, Fname("config", "yaml")))>>,
     <<PathEntry(RelPath(<<>>, Fname("config", "yaml")))>>,
     <<ModuleEntry("omod")>>,
     <<ModuleEntry("ghost")>>}

\* the directories that exist before any store is constructed
InitDirs == {Cwd, <<"site", "mod">>, <<"site", "mod", "data">>,
             <<"site", "omod">>, <<"site", "omod", "data">>}

NoThreads ==
    /\ tpc = [t \in Threads |-> "idle"]
    /\ tslice = [t \in Threads |-> <<>>]
    /\ tmap = [t \in Threads |-> [obj |-> 0, m |-> Empty]]

\* no session was ever requested
NoSessions ==
    /\ SESSIONS = Empty
    /\ built = 0
    /\ returned = Empty
    /\ slast = [op |-> "none"]
    /\ scall = [t \in Threads |-> [pc |-> "idle"]]

NoCaller ==
    /\ cdict \in {<<Empty>>, <<One("x", VInt(1))>>}
    /\ scopes = <<>>
    /\ exc = FALSE

-----------------------------------------------------------------------------
(* SpecLoad: construction from every arrangement of files                  *)

InitLoad ==
    /\ disk \in Disks
    /\ WellFormedDisk(disk)
    /\ fsdirs = InitDirs
    /\ module \in {"mod", ""}
    /\ paths_arg \in PathArgs
    /\ init_dict \in {Empty, One("x", VInt(0))}
    /\ phase = "new"
    /\ s_paths = <<>>
    /\ other_modules = <<>>
    /\ parsed = <<>>
    /\ settings = Empty
    /\ context_settings = <<>>
    /\ defaults = Empty
    /\ module_defaults = Empty
    /\ cdict = <<Empty>>
    /\ scopes = <<>>
    /\ exc = FALSE
    /\ last = NoLast
    /\ NoThreads
    /\ NoSessions
    /\ NoLogger

NextLoad ==
    \/ Construct
    \/ ResetAllOp
    \/ \E name \in {"x", "module"} : GetOp(name, VNone, VNone)

SpecLoad == InitLoad /\ [][NextLoad]_vars

-----------------------------------------------------------------------------
(* Spec: the operations on a constructed store, by one thread              *)

\* a working-directory file that sets x, over bundled defaults for x and y
StoreDisk ==
    (Real(MkPath(Cwd, Fname("settings", "yaml"))) :> One("x", VInt(1)))
    @@ (Real(MkPath(ModuleDatadir("mod"), Fname("settings", "yaml")))
            :> [x |-> VInt(3), y |-> VInt(0)])

\* Settings(module = 'mod') was constructed over the files of dsk
ReadyOn(dsk) ==
    /\ disk = dsk
    /\ module = "mod"
    /\ paths_arg = <<>>
    /\ init_dict = Empty
    /\ phase = "ready"
    /\ \E c \in {Constructed(disk, InitDirs, module, paths_arg, init_dict)} :
           /\ s_paths = c.paths
           /\ other_modules = c.others
           /\ module_defaults = c.module_defaults
           /\ settings = c.settings
           /\ parsed = c.parsed
           /\ defaults = c.defaults
           /\ fsdirs = c.dirs
    /\ context_settings = <<>>
    /\ last = NoLast
    /\ NoThreads
    /\ NoSessions
    /\ NoLogger

InitReady == ReadyOn(StoreDisk)

Init == InitReady /\ NoCaller

Next ==
    \/ \E d \in DictArgs, kw \in KwArgs : SetupOp(d, kw)
    \/ SetupBad
    \/ \E name \in Names : ResetOp(name)
    \/ ResetAllOp
    \/ \E a \in GetCalls : GetOp(a[1], a[2][1], a[2][2])
    \/ \E d \in DictArgs, kw \in KwArgs : ContextEnter(d, kw)
    \/ ContextEnterBad
    \/ Raise
    \/ Catch
    \/ ContextExit

Spec == Init /\ [][Next]_vars

-----------------------------------------------------------------------------
(* SpecThreads: two threads entering and leaving context scopes            *)

InitThreads == InitReady /\ cdict = <<Empty>> /\ scopes = <<>> /\ exc = FALSE

NextThreads ==
    \/ \E t \in Threads, name \in Names : TEnter(t, name)
    \/ \E t \in Threads : TExitSlice(t)
    \/ \E t \in Threads : TExitStore(t)

SpecThreads == InitThreads /\ [][NextThreads]_vars

-----------------------------------------------------------------------------
(* SpecNames: containment and enumeration on a store whose files set x     *)
(* and leave y unset                                                       *)

NamesDisk == Real(MkPath(Cwd, Fname("settings", "yaml"))) :> One("x", VInt(1))

InitNames == ReadyOn(NamesDisk) /\ NoCaller

\* z is a name that is never set
AllNames == Names \cup {"z"}

NextNames ==
    \/ \E d \in DictArgs, kw \in KwArgs : SetupOp(d, kw)
    \/ \E d \in DictArgs, kw \in KwArgs : ContextEnter(d, kw)
    \/ ContextEnterBad
    \/ Catch
    \/ ContextExit
    \/ ResetAllOp
    \/ \E name \in AllNames : ContainsOp(name)
    \/ DirOp

SpecNames == InitNames /\ [][NextNames]_vars

-----------------------------------------------------------------------------
(* Properties of the layered load (SpecLoad)                               *)

LoadKeys == {"x", "module"}

\* the keys the directory materializer writes after the layered load
RuntimeKeys == {"datadir", "module", "basedir", "cachedir", "secrets_dir", "pickle_dir"}

Candidates == Paths(s_paths, module, other_modules)

Defines(path, key) == Exists(disk, path) /\ key \in DOMAIN Read(disk, path)

\* the earliest candidate of ps that exists and defines key, 0 if none does
FirstDefining(ps, key) ==
    IF \E i \in 1..Len(ps) : Defines(ps[i], key)
    THEN CHOOSE i \in 1..Len(ps) :
             Defines(ps[i], key) /\ \A j \in 1..(i - 1) : ~Defines(ps[j], key)
    ELSE 0

\* C1: after the layered load over the candidate list, every key that some
\* existing candidate defines holds the value of the earliest candidate that
\* exists and defines it, also when a path occurs twice in the list
C1_FirstPriorityWins ==
    phase = "ready" =>
        \A key \in LoadKeys :
            FirstDefining(Candidates, key) # 0 =>
                /\ key \in DOMAIN LoadLayers(disk, Candidates).settings
                /\ LoadLayers(disk, Candidates).settings[key]
                       = Read(disk, Candidates[FirstDefining(Candidates, key)])[key]

\* the base map the store had when its constructor returned
ConstructedMap == Constructed(disk, InitDirs, module, paths_arg, init_dict).settings

\* C12: reset_all() leaves the context stack empty and the base map equal to
\* the base map the store had when its constructor returned, the files on
\* disk being unchanged, also for a store constructed with an initial
\* dictionary or keyword settings
C12_ResetAllRestores ==
    [][ResetAllOp => (context_settings' = <<>> /\ settings' = ConstructedMap)]_vars

\* the value of key in the module's bundled configuration file, None if the
\* bundled file does not define it
BundledValue(key) ==
    Bind(DirPaths(<<ModuleDatadir(module)>>, Fnames(module)), LAMBDA bundled :
         IF FirstDefining(bundled, key) # 0
         THEN Read(disk, bundled[FirstDefining(bundled, key)])[key]
         ELSE VNone)

\* C17: builtin_default(name) is the value of name in the module's bundled
\* configuration file, whichever of the candidate file names the file has,
\* and None when the bundled file does not define name
C17_BuiltinDefault ==
    phase = "ready" =>
        \A key \in LoadKeys : BuiltinDefault(module_defaults, key) = BundledValue(key)

\* the priority class of the i-th candidate: explicit paths, directories of
\* other modules, working directory, user config, legacy per-user, bundled
ClassAt(ps, i) ==
    IF i <= Len(s_paths) THEN 0
    ELSE CASE InSeq(ps[i].dir, other_modules) -> 1
           [] ps[i].dir = Cwd -> 2
           [] ps[i].dir = UserConfigDir(module) -> 3
           [] ps[i].dir = OldUserConfigDir(module) -> 4
           [] ps[i].dir = ModuleDatadir(module) -> 5
           [] OTHER -> 6

Classes == Bind(Candidates, LAMBDA ps : [i \in 1..Len(ps) |-> ClassAt(ps, i)])

Monotone(cl) == \A i \in 1..(Len(cl) - 1) : cl[i] <= cl[i + 1]

\* the candidates of the classes in cs come in the order of their classes
OrderedBy(cs) == Bind(SelectSeq(Classes, LAMBDA c : c \in cs), LAMBDA cl : Monotone(cl))

WdCandidates == DirPaths(<<Cwd>>, Fnames(module))
BundledCandidates == DirPaths(<<ModuleDatadir(module)>>, Fnames(module))
OtherCandidates == DirPaths(other_modules, Fnames(module))

\* get(key) on the constructed store
Stored(key) == Get(settings, context_settings, cdict, key, VNone, VNone)

WdValue(key) == Read(disk, WdCandidates[FirstDefining(WdCandidates, key)])[key]

InWdAndBundled(key) ==
    FirstDefining(WdCandidates, key) # 0 /\ FirstDefining(BundledCandidates, key) # 0

\* a source above the working directory defines key, or the materializer
\* writes it
SetElsewhere(key) ==
    \/ FirstDefining(s_paths, key) # 0
    \/ FirstDefining(OtherCandidates, key) # 0
    \/ key \in DOMAIN init_dict
    \/ key \in RuntimeKeys

DirKeys == {"datadir", "cachedir", "pickle_dir", "secrets_dir"}

\* the computed default of a directory setting
ComputedDir(key) ==
    CASE key = "datadir" -> IF ModuleDatadir(module) # NoDir
                            THEN VAbs(ModuleDatadir(module)) ELSE VRel(<<"data">>)
      [] key = "cachedir" -> VAbs(UserCacheDir(module))
      [] key = "pickle_dir" -> VAbs(UserCacheDir(module) \o <<"pickles">>)
      [] OTHER -> VAbs(UserSecretsDir(module))

\* C18: after construction or reset_all, each of datadir, cachedir,
\* pickle_dir and secrets_dir has a non-null value in the base map, the
\* computed default where no file and no argument configures it, and the
\* directory it names exists on disk
C18_DirsMaterialized ==
    phase = "ready" =>
        \A key \in DirKeys :
            /\ key \in DOMAIN settings
            /\ settings[key] # VNone
            /\ (FirstDefining(Candidates, key) = 0 /\ key \notin DOMAIN init_dict)
                   => settings[key] = ComputedDir(key)
            /\ IsStr(settings[key]) /\ RealDir(settings[key]) \in fsdirs

\* C20: constructing the store never fails, whatever the module name and the
\* explicit entries are and whichever files are absent; for a module that
\* cannot be located there are no bundled defaults and no candidate in a
\* module data directory
C20_MissingInputsNotFatal ==
    /\ phase # "failed"
    /\ (phase = "ready" /\ ModulePath(module) = NoDir /\ other_modules = <<>>) =>
           /\ module_defaults = Empty
           /\ ~InSeq(5, Classes)

-----------------------------------------------------------------------------
(* SpecMaterialize: the directory materializer run twice on a loaded map   *)

\* _setup_datadir(); _setup_cachedir(); _setup_secretsdir() on the store
MaterializeOp ==
    /\ phase \in {"loaded", "once"}
    /\ \E b \in {Materialize([st |-> settings, dirs |-> fsdirs, err |-> FALSE], module)} :
           /\ settings' = b.st
           /\ fsdirs' = b.dirs
           /\ exc' = b.err
           /\ phase' = IF b.err THEN "failed" ELSE IF phase = "loaded" THEN "once" ELSE "twice"
    /\ UNCHANGED <<sessVars, logVars, envVars, s_paths, other_modules, parsed, context_settings,
                   defaults, module_defaults, cdict, scopes, last, threadVars>>

\* the settings a config file may hold for the materializer: a datadir, a
\* file listed in in_datadir, a file listed in in_cachedir, a pickle_dir
DatadirSettings == {Empty, One("datadir", VRel(<<"dd">>)), One("datadir", VAbs(<<"abs", "dd">>))}

InDatadirSettings ==
    {Empty}
        \cup {[in_datadir |-> VList(<<"f">>), f |-> v] :
                 v \in {VRel(<<"f.txt">>), VRel(<<"sub", "f.txt">>),
                        VRel(<<"data", "f.txt">>),
                        VAbs(<<"site", "mod", "data", "f.txt">>)}}

InCachedirSettings ==
    {Empty}
        \cup {[in_cachedir |-> VList(<<"g">>), g |-> v] :
                 v \in {VRel(<<"g.txt">>), VRel(<<"sub", "g.txt">>),
                        VAbs(<<"home", ".cache", "mod", "g.txt">>)}}

PickleDirSettings == {Empty, One("pickle_dir", VAbs(<<"pk">>))}

InitMaterialize ==
    /\ disk = Empty /\ fsdirs = InitDirs /\ paths_arg = <<>> /\ init_dict = Empty
    /\ module \in {"mod", ""}
    /\ phase = "loaded"
    /\ s_paths = <<>> /\ other_modules = <<>> /\ parsed = <<>>
    /\ \E a \in DatadirSettings, b \in InDatadirSettings, c \in InCachedirSettings,
          d \in PickleDirSettings :
           settings = Update(Update(a, b), Update(c, d))
    /\ context_settings = <<>>
    /\ defaults = Empty /\ module_defaults = Empty
    /\ cdict = <<Empty>> /\ scopes = <<>> /\ exc = FALSE
    /\ last = NoLast
    /\ NoThreads
    /\ NoSessions
    /\ NoLogger

SpecMaterialize == InitMaterialize /\ [][MaterializeOp]_vars

\* C19: running the materialization steps a second time raises no error,
\* creates no directory and leaves every setting, those listed in in_datadir
\* and in_cachedir included, equal to its value after the first run
C19_MaterializeIdempotent ==
    [][(MaterializeOp /\ phase = "once") =>
           (~exc' /\ settings' = settings /\ fsdirs' = fsdirs)]_vars

-----------------------------------------------------------------------------
(* Properties of the store's operations (Spec)                             *)

\* the context stack holds exactly the maps of the active with-blocks
ProperlyNested == Len(context_settings) = Len(scopes)

\* the positions of the context stack whose map contains name
Holding(name) ==
    {i \in 1..Len(context_settings) :
         name \in DOMAIN CtxMap(cdict, context_settings[i])}

Innermost(name) == CHOOSE i \in Holding(name) : \A j \in Holding(name) : j <= i

\* the value of name in the most recently pushed map that contains it, else
\* in the base map, else None
Resolved(name) ==
    IF Holding(name) # {}
    THEN CtxMap(cdict, context_settings[Innermost(name)])[name]
    ELSE IF name \in DOMAIN settings THEN settings[name] ELSE VNone

Lookup(name) == GetItem(settings, context_settings, cdict, name)

\* C3: while the with-blocks are properly nested, a lookup of a name returns
\* the value of the most recently pushed active context map that contains the
\* name, and the base map's value only if no active context map contains it
C3_LookupOrder ==
    ProperlyNested => \A name \in AllNames : Lookup(name) = Resolved(name)

\* get("x") was called inside two nested with-blocks that both override x,
\* with values that differ from each other and from the base map's
C3_Witness ==
    /\ last.op = "get" /\ last.name = "x" /\ last.override = VNone
    /\ ProperlyNested
    /\ Holding("x") = {1, 2}
    /\ "x" \in DOMAIN settings
    /\ CtxMap(cdict, context_settings[2])["x"] # CtxMap(cdict, context_settings[1])["x"]
    /\ CtxMap(cdict, context_settings[2])["x"] # settings["x"]
    /\ last.res = CtxMap(cdict, context_settings[2])["x"]

Top(sc) == sc[Len(sc)]

\* C4: when a with-block is left normally and the base map was not modified
\* inside it, get(name) returns for every name what it returned immediately
\* before the block was entered
C4_ExitRestores ==
    [][(ContextExit /\ ~exc /\ ~Top(scopes).dirty) => Snapshot' = Top(scopes).pre]_vars

\* C5: when a with-block is left by an exception raised in its body, the
\* context stack has the length it had before the block was entered, and
\* (the base map not having been modified inside) get(name) returns for
\* every name what it returned before the block
C5_ExceptionSafe ==
    [][(ContextExit /\ exc) =>
           /\ Len(context_settings') = Top(scopes).depth
           /\ ~Top(scopes).dirty => Snapshot' = Top(scopes).pre]_vars

\* C6: the length of the context stack equals the number of with-blocks that
\* were entered and not yet left
C6_StackDepth == Len(context_settings) = Len(scopes)

\* the arguments get() is compared on: every name, override None, 0 or 1,
\* default None or 2
AllGetArgs == AllNames \X {VNone, VInt(0), VInt(1)} \X {VNone, VInt(2)}

GetNow(name, override, default) ==
    Get(settings, context_settings, cdict, name, override, default)

\* the reference of get as stated: default only for a name that is in no
\* context map and not in the base map
GetReference_AsStated(name, override, default) ==
    IF override # VNone THEN override
    ELSE IF Holding(name) # {} \/ name \in DOMAIN settings THEN Resolved(name)
    ELSE default

\* the reference of get: default also for a name whose resolved value is None
GetReference(name, override, default) ==
    IF override # VNone THEN override
    ELSE IF Resolved(name) # VNone THEN Resolved(name)
    ELSE default

\* C8 as stated: get(name, override, default) returns override if it is not
\* None, else the value resolved through the context stack then the base map,
\* and default only if the name is in neither
C8_Get_AsStated ==
    /\ \A a \in AllGetArgs : GetNow(a[1], a[2], a[3]) = GetReference_AsStated(a[1], a[2], a[3])
    /\ last.op = "get" =>
           last.res = GetReference_AsStated(last.name, last.override, last.default)

\* C8: get(name, override, default) returns override if it is not None, else
\* the value resolved through the context stack then the base map, and
\* default if the name is in neither or the resolved value is None; falsy
\* values other than None are returned as stored
C8_Get ==
    /\ \A a \in AllGetArgs : GetNow(a[1], a[2], a[3]) = GetReference(a[1], a[2], a[3])
    /\ last.op = "get" =>
           last.res = GetReference(last.name, last.override, last.default)

\* get("x", default = 2) was called while the base map stores None for x and
\* no context overrides it, and returned the default
C8_Witness ==
    /\ last.op = "get" /\ last.name = "x"
    /\ last.override = VNone /\ last.default = VInt(2)
    /\ Holding("x") = {}
    /\ "x" \in DOMAIN settings /\ settings["x"] = VNone
    /\ last.res = VInt(2)

\* C11: after setup(name = v) and then reset(name), the base map holds
\* default(name) for name, the value of the defaults snapshot, and not
\* builtin_default(name) when the two differ; if no active context map
\* contains name, get(name) equals default(name)
C11_ResetRoundTrip ==
    last.op = "reset" =>
        /\ last.name \in DOMAIN settings
        /\ settings[last.name] = BaseValue(defaults, last.name)
        /\ BaseValue(defaults, last.name) # BaseValue(module_defaults, last.name)
               => settings[last.name] # BaseValue(module_defaults, last.name)
        /\ Holding(last.name) = {}
               => GetNow(last.name, VNone, VNone) = BaseValue(defaults, last.name)

\* reset("x") was called after setup(x = 2), outside every context, on a
\* store whose snapshot holds 1 for x and whose bundled defaults hold 3
C11_Witness ==
    /\ last.op = "reset" /\ last.name = "x" /\ last.res = VInt(2)
    /\ context_settings = <<>>
    /\ BaseValue(module_defaults, "x") = VInt(3)
    /\ settings["x"] = VInt(1)
    /\ GetNow("x", VNone, VNone) = VInt(1)

\* the mapping a call setup(d, **kw) is given
Given(d, kw) == IF KeepsObject(d, cdict) THEN Update(cdict[1], kw) ELSE kw

\* the maps on the context stack, outermost first
StackMaps == [i \in 1..Len(context_settings) |-> CtxMap(cdict, context_settings[i])]

\* C9: setup(d, **kw) overwrites exactly the given keys of the base map and
\* leaves the other keys, the context stack with every map in it, and the
\* defaults snapshot unchanged
C9_SetupFrame ==
    [][\A d \in DictArgs, kw \in KwArgs :
           SetupOp(d, kw) =>
               /\ settings' = Update(settings, Given(d, kw))
               /\ StackMaps' = StackMaps
               /\ defaults' = defaults]_vars

\* the value the base map held for name when the layered load and the
\* directory materialization completed
LoadedValue(name) ==
    Bind(Bootstrap(disk, InitDirs, module, s_paths, other_modules).settings,
         LAMBDA st : IF name \in DOMAIN st THEN st[name] ELSE VNone)

DefaultsFixed ==
    \A name \in AllNames \cup {"datadir"} : Default(defaults, name) = LoadedValue(name)

\* the keyword arguments name = v with v different from default(name)
Away(name) == {kw \in KwArgs : name \in DOMAIN kw /\ kw[name] # Default(defaults, name)}

\* C10 as stated: default(name) is the value the base map held at the end of
\* the initial layering whatever was called since, and right after
\* setup(name = v) with another v, default(name) differs from get(name)
C10_DefaultsFixed_AsStated ==
    /\ []DefaultsFixed
    /\ [][\A name \in Names : \A kw \in Away(name) : \A d \in DictArgs :
              SetupOp(d, kw) => Default(defaults', name) # GetNow(name, VNone, VNone)']_vars

\* C10: default(name) is the value the base map held at the end of the
\* initial layering whatever was called since, and right after
\* setup(name = v) with another v, default(name) differs from get(name)
\* unless an active context map contains name
C10_DefaultsFixed ==
    /\ []DefaultsFixed
    /\ [][\A name \in Names : \A kw \in Away(name) : \A d \in DictArgs :
              (SetupOp(d, kw) /\ ~InContext(context_settings', cdict', name))
                  => Default(defaults', name) # GetNow(name, VNone, VNone)']_vars

\* setup(x = 2) was called on a store whose snapshot holds 1 for x, outside
\* every context
C10_Witness ==
    /\ phase = "ready"
    /\ context_settings = <<>> /\ scopes = <<>>
    /\ "x" \in DOMAIN settings /\ settings["x"] = VInt(2)
    /\ Default(defaults, "x") = VInt(1)
    /\ GetNow("x", VNone, VNone) = VInt(2)

\* C26: a context entry that fails before its map was pushed removes no map
\* from the context stack, and get(name) returns for every name what it
\* returned before the failed entry
C26_FailedEntryKeepsStack ==
    [][ContextEnterBad =>
           (context_settings' = context_settings /\ Snapshot' = Snapshot)]_vars

\* the keyword arguments that set name
Setting(name) == {kw \in KwArgs : name \in DOMAIN kw}

\* C27: setup(name = v) while a map on the context stack contains name writes
\* v to the base map and leaves the context stack and what get(name) returns
\* unchanged; leaving a with-block leaves the base map unchanged, and once no
\* map on the stack contains name get(name) returns the base map's value
C27_SetupInsideContext ==
    /\ [][\A name \in Names : \A kw \in Setting(name) :
              (InContext(context_settings, cdict, name) /\ SetupOp("none", kw)) =>
                  /\ GetNow(name, VNone, VNone)' = GetNow(name, VNone, VNone)
                  /\ context_settings' = context_settings
                  /\ settings'[name] = kw[name]]_vars
    /\ [][ContextExit =>
              /\ settings' = settings
              /\ \A name \in Names :
                     ~InContext(context_settings', cdict', name) =>
                         GetNow(name, VNone, VNone)' = BaseValue(settings, name)]_vars

\* get("x") was called inside a with-block that overrides x with 1, after
\* setup(x = 2) inside the block, and returned 1
C27_Witness ==
    /\ last.op = "get" /\ last.name = "x" /\ last.override = VNone
    /\ Len(scopes) = 1 /\ scopes[1].dirty
    /\ Holding("x") = {1}
    /\ CtxMap(cdict, context_settings[1])["x"] = VInt(1)
    /\ settings["x"] = VInt(2)
    /\ last.res = VInt(1)

\* C28: when the innermost map on the context stack that contains name maps
\* it to None, or no map contains it and the base map maps it to None,
\* get(name, default = d) returns d and name is in the store; a context
\* entry name = None hides a base map value that is not None
C28_StoredNone ==
    /\ \A name \in AllNames : \A d \in {VNone, VInt(2)} :
           ((Holding(name) # {} \/ name \in DOMAIN settings) /\ Resolved(name) = VNone) =>
               /\ GetNow(name, VNone, d) = d
               /\ Contains(settings, context_settings, cdict, name)
    /\ (last.op = "get" /\ last.override = VNone /\ Resolved(last.name) = VNone) =>
           last.res = last.default

\* get("x", default = 2) was called inside a with-block whose map holds None
\* for x while the base map holds 1 for it, and returned 2
C28_Witness ==
    /\ last.op = "get" /\ last.name = "x"
    /\ last.override = VNone /\ last.default = VInt(2)
    /\ Holding("x") # {}
    /\ CtxMap(cdict, context_settings[Innermost("x")])["x"] = VNone
    /\ "x" \in DOMAIN settings /\ settings["x"] = VInt(1)
    /\ Contains(settings, context_settings, cdict, "x")
    /\ last.res = VInt(2)

-----------------------------------------------------------------------------
(* Properties of containment and enumeration (SpecNames)                   *)

\* the keys of the maps on the context stack and of the base map
StoreKeys ==
    DOMAIN settings
        \cup UNION {DOMAIN CtxMap(cdict, context_settings[i]) :
                       i \in 1..Len(context_settings)}

Count(key, keys) == Len(SelectSeq(keys, LAMBDA k : k = key))

DirNow == Dir(settings, context_settings, cdict)

\* C21: a name is in the store exactly when it is a key of a map on the
\* context stack or a key of the base map, and dir() of the store lists
\* every key of every map on the context stack and every key of the base
\* map exactly once
C21_ContainsAndDir ==
    /\ \A name \in AllNames :
           Contains(settings, context_settings, cdict, name)
               <=> (Holding(name) # {} \/ name \in DOMAIN settings)
    /\ \A key \in StoreKeys : Count(key, DirNow) = 1
    /\ last.op = "contains" =>
           last.res = VBool(Holding(last.name) # {} \/ last.name \in DOMAIN settings)
    /\ last.op = "dir" => \A key \in StoreKeys : Count(key, last.res.p) = 1

\* dir() was called inside two nested with-blocks that both override x, one of
\* them overriding y, which the base map does not hold
C21_Witness ==
    /\ last.op = "dir"
    /\ Holding("x") = {1, 2} /\ "x" \in DOMAIN settings
    /\ Holding("y") # {} /\ "y" \notin DOMAIN settings
    /\ Count("x", last.res.p) = 1
    /\ Count("y", last.res.p) = 1
    /\ Count("module", last.res.p) = 1
    /\ Count("z", last.res.p) = 0
    /\ ~Contains(settings, context_settings, cdict, "z")

-----------------------------------------------------------------------------
(* Properties of the context stack under two threads (SpecThreads)         *)

\* C7: the map a thread's scope pushed stays on the context stack while the
\* scope is active, and the stack is empty once every scope has exited
C7_ThreadsPushPop ==
    /\ \A t \in Threads : tpc[t] = "in" => InSeq(tmap[t], context_settings)
    /\ (\A t \in Threads : tpc[t] = "idle") => context_settings = <<>>

-----------------------------------------------------------------------------
(* The session registry: _session.SESSIONS, _get_module, session,          *)
(* new_session.  A module name is the sequence of its dot-separated        *)
(* components, <<>> stands for None.  A Session object is                  *)
(* [id, module, config]: its identity, its module field and the keyword    *)
(* arguments it was constructed with.                                      *)

MaxSessions == 3     \* Session objects constructed in one run

NoModule == <<>>

\* mod.split('.')[0]
ModTop(m) == <<m[1]>>

FORBIDDEN == {"importlib", "console", "__main__", "code", "IPython"}

\* A call stack is the sequence of the __name__ of its frames' modules, from
\* the frame of caller_module outward.
\* mod_of_fi = lambda fi: mod_top(fi.frame.f_globals['__name__'])
ModOfFi(stack, i) == ModTop(stack[i])

\* this_module = mod_top(mod_of_fi(stack[0]))
ThisModule(stack) == ModTop(ModOfFi(stack, 1))

\* for fi in stack: ... of caller_module, from frame i outward.  mod_of_fi
\* already cuts the name to its top level, so mod_full has no submodules
\* either.
RECURSIVE CallerModuleFrom(_, _, _)
CallerModuleFrom(stack, i, with_submodules) ==
    IF i > Len(stack) THEN ThisModule(stack)
    ELSE IF ModTop(ModOfFi(stack, i)) # ThisModule(stack)
    THEN (IF ModTop(ModOfFi(stack, i))[1] \in FORBIDDEN THEN ThisModule(stack)
          ELSE IF with_submodules THEN ModOfFi(stack, i)
          ELSE ModTop(ModOfFi(stack, i)))
    ELSE CallerModuleFrom(stack, i + 1, with_submodules)

\* _misc.caller_module
CallerModule(stack, with_submodules) == CallerModuleFrom(stack, 1, with_submodules)

GetModule(mod, top, stack) ==
    Bind(IF mod # NoModule THEN mod ELSE CallerModule(stack, ~top), LAMBDA m :
         IF m = <<"pypath_common">> THEN <<"pypath">> ELSE m)

\* Session(module, **kwargs), the id-th object constructed
NewSession(id, mod, stack, kw) ==
    [id |-> id, module |-> GetModule(mod, FALSE, stack), config |-> kw]

\* the test of session() that always fails: a session is constructed anew
NeverRegistered(reg, key) == FALSE

\* module in SESSIONS
Registered(reg, key) == key \in DOMAIN reg

NoSession == [id |-> 0, module |-> NoModule, config |-> ""]

\* the frames of the library at the bottom of every call stack, and the stack
\* of a call made from the module named frame
LibraryFrames == << <<"pypath_common", "_misc">>, <<"pypath_common", "_session">> >>
CalledFrom(frame) == LibraryFrames \o <<frame>>

\* the module a call site means: the name it passes, else the top level of
\* the module the call is made from
Identity(arg, stack) == IF arg # NoModule THEN arg ELSE ModTop(stack[Len(LibraryFrames) + 1])

settingsVars == <<envVars, fsdirs, phase, storeVars, cdict, scopes, exc, last,
                  threadVars>>

\* the registry after session() made sure that key is registered
Ensured(reg, key, id, stack, kw) ==
    IF Registered(reg, key) THEN reg
    ELSE Update(reg, One(key, NewSession(id, key, stack, kw)))

\* session(arg, **kw) called with the call stack `stack`
SessionOp(arg, stack, kw) ==
    \E key \in {GetModule(arg, TRUE, stack)} :
        /\ Registered(SESSIONS, key) \/ built < MaxSessions
        /\ SESSIONS' = Ensured(SESSIONS, key, built + 1, stack, kw)
        /\ built' = IF Registered(SESSIONS, key) THEN built ELSE built + 1
        /\ slast' = [op |-> "session", arg |-> arg, frame |-> stack, kw |-> kw,
                     key |-> key, res |-> SESSIONS'[key],
                     made |-> IF Registered(SESSIONS, key) THEN 0 ELSE built + 1,
                     prev |-> IF Identity(arg, stack) \in DOMAIN returned
                              THEN returned[Identity(arg, stack)] ELSE NoSession]
        /\ returned' = Update(returned, One(Identity(arg, stack), SESSIONS'[key]))
        /\ UNCHANGED <<scall, settingsVars, logVars>>

\* new_session(arg, **kw) called with the call stack `stack`
NewSessionOp(arg, stack, kw) ==
    /\ built < MaxSessions
    /\ SESSIONS' = Update(SESSIONS, One(arg, NewSession(built + 1, arg, stack, kw)))
    /\ built' = built + 1
    /\ slast' = [op |-> "new_session", arg |-> arg, frame |-> stack, kw |-> kw,
                 key |-> arg, res |-> NoSession, made |-> built + 1, prev |-> NoSession]
    /\ returned' = Empty
    /\ UNCHANGED <<scall, settingsVars, logVars>>

\* the assignment that stores a Session whose constructor raised
AssignedAnyway(reg, key, obj, raised) == Update(reg, One(key, obj))

\* SESSIONS[module] = Session(module, **kwargs): the constructor is evaluated
\* first, and when it raises the assignment is not executed
Assigned(reg, key, obj, raised) == IF raised THEN reg ELSE Update(reg, One(key, obj))

\* the keyword arguments with which Session.__init__ raises (a malformed
\* configuration file, a log directory that cannot be created)
BadKw == "bad"

\* session(arg, **kw) for a module that is not registered, when the
\* constructor raises: the exception leaves new_session and session
SessionRaises(arg, stack) ==
    \E key \in {GetModule(arg, TRUE, stack)} :
        /\ ~Registered(SESSIONS, key)
        /\ SESSIONS' = Assigned(SESSIONS, key,
                                NewSession(built + 1, key, stack, BadKw), TRUE)
        /\ slast' = [op |-> "session_raised", arg |-> arg, frame |-> stack,
                     kw |-> BadKw, key |-> key, res |-> NoSession, made |-> 0,
                     prev |-> NoSession, reg |-> SESSIONS]
        /\ UNCHANGED <<built, returned, scall, settingsVars, logVars>>

\* new_session(arg, **kw) when the constructor raises
NewSessionRaises(arg, stack) ==
    /\ SESSIONS' = Assigned(SESSIONS, arg,
                            NewSession(built + 1, arg, stack, BadKw), TRUE)
    /\ slast' = [op |-> "new_session_raised", arg |-> arg, frame |-> stack,
                 kw |-> BadKw, key |-> arg, res |-> NoSession, made |-> 0,
                 prev |-> NoSession, reg |-> SESSIONS]
    /\ UNCHANGED <<built, returned, scall, settingsVars, logVars>>

\* session(arg, a = ...) in a thread: the membership test, ...
TSessionCheck(t, arg, stack) ==
    /\ scall[t].pc \in {"idle", "done"}
    /\ \E key \in {GetModule(arg, TRUE, stack)} :
           scall' = [scall EXCEPT ![t] =
                        [pc |-> IF Registered(SESSIONS, key) THEN "return" ELSE "new",
                         key |-> key, frame |-> stack, kw |-> "a", made |-> 0,
                         res |-> NoSession]]
    /\ UNCHANGED <<SESSIONS, built, returned, slast, settingsVars, logVars>>

\* ... the call of new_session, ...
TSessionNew(t) ==
    /\ scall[t].pc = "new"
    /\ built < MaxSessions
    /\ SESSIONS' = Update(SESSIONS, One(scall[t].key,
                       NewSession(built + 1, scall[t].key, scall[t].frame, scall[t].kw)))
    /\ built' = built + 1
    /\ scall' = [scall EXCEPT ![t].pc = "return", ![t].made = built + 1]
    /\ UNCHANGED <<returned, slast, settingsVars, logVars>>

\* ... and return SESSIONS[module]
TSessionReturn(t) ==
    /\ scall[t].pc = "return"
    /\ scall' = [scall EXCEPT ![t].pc = "done", ![t].res = SESSIONS[scall[t].key]]
    /\ UNCHANGED <<SESSIONS, built, returned, slast, settingsVars, logVars>>

\* the names passed to session() and new_session(), the call sites and the
\* keyword arguments
SessionArgs == {NoModule, <<"pkg">>, <<"pkg", "sub">>, <<"pypath_common">>}
Frames == {<<"pkg", "sub">>, <<"__main__">>}
CallSites == {CalledFrom(frame) : frame \in Frames}
SessionKw == {"a", "b"}

\* no store is under observation
NoStore ==
    /\ disk = Empty /\ fsdirs = InitDirs /\ module = "" /\ paths_arg = <<>>
    /\ init_dict = Empty /\ phase = "new"
    /\ s_paths = <<>> /\ other_modules = <<>> /\ parsed = <<>>
    /\ settings = Empty /\ context_settings = <<>>
    /\ defaults = Empty /\ module_defaults = Empty
    /\ cdict = <<Empty>> /\ scopes = <<>> /\ exc = FALSE
    /\ last = NoLast
    /\ NoThreads

InitSession == NoStore /\ NoSessions /\ NoLogger

NextSession ==
    \/ \E arg \in SessionArgs, stack \in CallSites, kw \in SessionKw :
           SessionOp(arg, stack, kw)
    \/ \E arg \in SessionArgs, stack \in CallSites, kw \in SessionKw :
           NewSessionOp(arg, stack, kw)
    \/ \E arg \in SessionArgs, stack \in CallSites : SessionRaises(arg, stack)
    \/ \E arg \in SessionArgs, stack \in CallSites : NewSessionRaises(arg, stack)

SpecSession == InitSession /\ [][NextSession]_vars

NextSessionThreads ==
    \/ \E t \in Threads, arg \in SessionArgs, stack \in CallSites :
           TSessionCheck(t, arg, stack)
    \/ \E t \in Threads : TSessionNew(t)
    \/ \E t \in Threads : TSessionReturn(t)

SpecSessionThreads == InitSession /\ [][NextSessionThreads]_vars

-----------------------------------------------------------------------------
(* SpecCaller: session() called without a module from every call stack     *)

MaxFrames == 3       \* frames outside the library's own in a call stack

\* the modules of the frames above the library's own
OuterFrames ==
    {<<"pkg", "sub">>, <<"pypath_common">>, <<"importlib", "_bootstrap">>,
     <<"__main__">>}

Stacks ==
    {LibraryFrames \o outer :
        outer \in UNION {[1..n -> OuterFrames] : n \in 1..MaxFrames}}

NextCaller == \E stack \in Stacks : SessionOp(NoModule, stack, "a")

SpecCaller == InitSession /\ [][NextCaller]_vars

\* the frames whose module is neither the library's own nor forbidden
Eligible(stack) ==
    {i \in 1..Len(stack) :
        /\ ModTop(stack[i]) # ThisModule(stack)
        /\ ModTop(stack[i])[1] \notin FORBIDDEN}

FirstEligible(stack) == CHOOSE i \in Eligible(stack) : \A j \in Eligible(stack) : i <= j

\* C22: session() called without a module uses the top-level name of the
\* first frame, walking outward, whose module is neither the library's own
\* nor one of importlib, console, __main__, code, IPython, also when a frame
\* of one of these lies between the library's frames and that frame
C22_CallerInference ==
    (slast.op = "session" /\ slast.arg = NoModule /\ Eligible(slast.frame) # {}) =>
        /\ slast.key = ModTop(slast.frame[FirstEligible(slast.frame)])
        /\ slast.res.module = ModTop(slast.frame[FirstEligible(slast.frame)])

-----------------------------------------------------------------------------
(* Properties of the session registry (SpecSession, SpecSessionThreads)    *)

\* C13: a call of session(m, ...) that follows another one for the same
\* module identity, with no new_session call in between, returns the
\* identical Session object, constructs nothing, and its keyword arguments
\* do not change the Session
C13_Singleton ==
    (slast.op = "session" /\ slast.prev # NoSession) =>
        (slast.res = slast.prev /\ slast.made = 0)

\* session(m, ...) was called a second time, with other keyword arguments
\* than the Session was constructed with
C13_Witness ==
    /\ slast.op = "session"
    /\ slast.prev # NoSession
    /\ slast.kw # slast.res.config
    /\ slast.res = slast.prev

\* C14: the call of session(m) that follows new_session(m) from the same call
\* site returns the Session object new_session constructed
C14_NewSessionReplaces ==
    [][\A arg \in SessionArgs, stack \in CallSites, kw \in SessionKw :
           (slast.op = "new_session" /\ slast.arg = arg /\ slast.frame = stack
                /\ SessionOp(arg, stack, kw))
               => slast'.res.id = slast.made]_vars

\* C15: every registry key is a top-level module name, the Session under a
\* key has that key as its module field, and no two registered Sessions
\* belong to the same top-level module
C15_RegistryInvariant ==
    \A k \in DOMAIN SESSIONS :
        /\ Len(k) = 1
        /\ SESSIONS[k].module = k
        /\ \A k2 \in DOMAIN SESSIONS \ {k} :
               ModTop(SESSIONS[k2].module) # ModTop(SESSIONS[k].module)

\* C16: two calls of session(m) by two threads for the same module return
\* the same Session object, and at most one of them constructed a Session
C16_OneSessionConcurrently ==
    \A t1, t2 \in Threads :
        (t1 # t2 /\ scall[t1].pc = "done" /\ scall[t2].pc = "done"
             /\ scall[t1].key = scall[t2].key)
            => /\ scall[t1].res = scall[t2].res
               /\ scall[t1].made = 0 \/ scall[t2].made = 0

\* the call that just returned raised from the Session constructor
Raised == slast.op \in {"session_raised", "new_session_raised"}

\* C29: when the Session constructor raises inside session(m) or
\* new_session(m), the registry is what it was before the call: no entry is
\* added and none is replaced; the session(m) call that follows returns the
\* Session that was registered before, constructing nothing, or, for a
\* module that is not registered, constructs a Session
C29_FailedConstruction ==
    /\ [](Raised => SESSIONS = slast.reg)
    /\ [][\A stack \in CallSites, kw \in SessionKw :
              (Raised /\ SessionOp(slast.arg, stack, kw)) =>
                  IF Registered(SESSIONS, slast'.key)
                  THEN slast'.res = SESSIONS[slast'.key] /\ slast'.made = 0
                  ELSE slast'.made # 0 /\ slast'.res.id = slast'.made]_vars

\* new_session(m) raised for a module m that has a registered Session, which
\* is still registered
C29_Witness ==
    /\ slast.op = "new_session_raised"
    /\ slast.arg \in DOMAIN slast.reg
    /\ slast.arg \in DOMAIN SESSIONS
    /\ SESSIONS[slast.arg] = slast.reg[slast.arg]
    /\ SESSIONS[slast.arg].id # 0

-----------------------------------------------------------------------------
(* SpecLogger: one session's logger under every override of the log file   *)

Levels == 0..MaxLevel
Verbosities == {0, 1}
ConsoleLevels == {-1, 0, 2}

\* PYPATH_LOG in the environment: unset, empty, a bare file name, a path
EnvValues == {VNone, VRel(<<>>), VRel(<<"env.log">>), VAbs(<<"var", "env.log">>)}

\* builtins.PYPATH_LOG: not set, set to '', set to a path
BuiltinValues == {VNone, VRel(<<>>), VAbs(<<"var", "glob.log">>)}

InitLogger ==
    /\ NoStore /\ NoSessions
    /\ logenv \in [env : EnvValues, builtin : BuiltinValues]
    /\ logger = NoLoggerYet
    /\ llast = NoLogCall

NextLogger ==
    \/ \E v \in Verbosities, c \in ConsoleLevels : StartLogger(v, c)
    \/ \E level \in Levels : MsgOp(level)
    \/ ConsoleOp
    \/ OpenLogfileOp
    \/ CloseLogfileOp
    \/ FlushOp
    \/ FinishLoggerOp
    \/ SessionDelOp
    \/ LoggerDelOp

SpecLogger == InitLogger /\ [][NextLogger]_vars

\* C23: msg(message, label, level) writes the message to the log file
\* exactly when level <= verbosity and echoes it to the console exactly when
\* level <= console_level
C23_LevelFiltering ==
    llast.op = "msg" =>
        /\ llast.wrote <=> llast.level <= logger.verbosity
        /\ llast.echoed <=> llast.level <= logger.console_level

\* C24: console(msg, label) prints the message to the console and writes it
\* to the log file, whatever the verbosity and the console level are
C24_ConsoleAlsoLogs ==
    llast.op = "console" => (llast.echoed /\ llast.wrote)

\* the log file path as claimed: PYPATH_LOG of the environment when set and
\* not empty, else builtins.PYPATH_LOG when set, else the default name
ClaimedLogfile ==
    IF logenv.env # VNone /\ logenv.env # VRel(<<>>) THEN logenv.env
    ELSE IF logenv.builtin # VNone THEN logenv.builtin
    ELSE DefaultLogfile

\* C25: the log file of a session is at the path PYPATH_LOG of the
\* environment gives when it is set and not empty, else at the path
\* builtins.PYPATH_LOG gives when it is set, else it has the default name
\* 'pypath-<label>.log'
C25_LogfileOverride ==
    logger.life # "none" =>
        /\ logger.logfile = ClaimedLogfile
        /\ logger.fname = PathAbspath(ClaimedLogfile)

\* C30: no call of msg, console, finish_logger, Session.__del__ or
\* Logger.__del__ writes to the log file unless the file handle is open,
\* and close_logfile and flush do nothing to a handle that is closed
C30_HandleLifecycle ==
    /\ llast.attempt => (llast.fp = "open" /\ ~llast.raised)
    /\ (llast.op \in {"close_logfile", "flush"} /\ llast.fp # "open") => ~llast.acted

====
